---- MODULE Spec2Model ----
(***************************************************************************)
(* State-machine model of loader/manager/data_manager.py (class            *)
(* DataManager): construction, load_data, downsample and get_samples.      *)
(*                                                                         *)
(* Python's None is the empty tuple <<>>; a populated slot is the          *)
(* one-element tuple <<value>>.  numpy indices are 0-based; TLA+ sequences *)
(* are 1-based, so index i of an array is position i + 1 of its sequence.  *)
(***************************************************************************)
EXTENDS Integers, Sequences, FiniteSets, TLC

\* ---------------------------------------------------------------- bounds
MaxBatch == 12      \* batch_size is drawn from 0..MaxBatch
MaxN == 13          \* size of the largest corpus on disk
SmallN == 5         \* size of the small corpus on disk
SmallK == 3         \* number of classes present in the unbalanced corpora
MaxPasses == 2      \* cap on downsampler passes over one held array

\* ------------------------------------------------------ program constants
num_classes == 10

None == <<>>
Some(x) == <<x>>

Device == {"CPU", "GPU"}

Min(a, b) == IF a < b THEN a ELSE b
Range(s) == {s[i] : i \in DOMAIN s}

\* ------------------------------------------------------------- the files
\* What np.load finds at data_path / labels_path: n images, label i is
\* i % k, and whether the data array is (N, 28, 28) uint8.
Corpora ==
    {[n |-> 0, k |-> num_classes, shape_ok |-> TRUE],
     [n |-> SmallN, k |-> SmallK, shape_ok |-> TRUE],
     [n |-> SmallN, k |-> num_classes, shape_ok |-> TRUE],
     [n |-> MaxN, k |-> num_classes, shape_ok |-> TRUE],
     [n |-> SmallN, k |-> num_classes, shape_ok |-> FALSE]}

LabelsOf(c) == [i \in 1..c.n |-> (i - 1) % c.k]

\* ------------------------------------------------- external collaborators
\* A host array freshly read from disk: no downsampler pass applied.
RawArray(c) == [corpus |-> c, q |-> 0, dev |-> "CPU"]
\* Element idx of an array.
Elem(arr, idx) == [corpus |-> arr.corpus, idx |-> idx, q |-> arr.q]
\* cuda.to_device / DeviceNDArray.copy_to_host: same content, other device.
to_device(arr) == [arr EXCEPT !.dev = "GPU"]
copy_to_host(arr) == [arr EXCEPT !.dev = "CPU"]
\* CPUStateDownSampler.__call__ / CUDAStateDownSampler.__call__: one
\* quantization pass over the whole array, on the device it resides on.
Quantize(arr) == [arr EXCEPT !.q = @ + 1]
CPUTensor(x) == Some(x)
GPUTensor(x) == Some(x)

\* ------------------------------------------------------------ __init__
\* the mode check of line 45 left out
IllegalModeMissing(pd, sd) == FALSE

\* line 45: the disallowed (processing, storage) pair
IllegalMode(pd, sd) == pd = "CPU" /\ sd = "GPU"

\* "and GPUTensor is not None" of line 52 and the check of line 59 left out
construct_no_gpu_check(pd, sd, gpu) ==
    IF IllegalMode(pd, sd)
    THEN [outcome |-> "NotImplementedError:modes", downsampler |-> None]
    ELSE IF pd # "CPU" /\ pd # "GPU"
    THEN [outcome |-> "NotImplementedError:process", downsampler |-> None]
    ELSE LET ds == IF pd = "CPU" THEN "CPUStateDownSampler"
                                 ELSE "CUDAStateDownSampler"
         IN  IF sd \notin {"CPU", "GPU"}
             THEN [outcome |-> "NotImplementedError:storage",
                   downsampler |-> Some(ds)]
             ELSE [outcome |-> "ok", downsampler |-> Some(ds)]

\* lines 45-66: outcome of DataManager.__init__ and the downsampler bound
\* to self.downsampler when the raise (if any) happens.  gpu is
\* "GPUTensor is not None" (the import guard of lines 7-11).
construct(pd, sd, gpu) ==
    IF IllegalMode(pd, sd)
    THEN [outcome |-> "NotImplementedError:modes", downsampler |-> None]
    ELSE IF pd # "CPU" /\ ~(pd = "GPU" /\ gpu)
    THEN [outcome |-> "NotImplementedError:process", downsampler |-> None]
    ELSE LET ds == IF pd = "CPU" THEN "CPUStateDownSampler"
                                 ELSE "CUDAStateDownSampler"
         IN  IF sd = "GPU" /\ ~gpu
             THEN [outcome |-> "NotImplementedError:gpu_storage",
                   downsampler |-> Some(ds)]
             ELSE IF sd \notin {"CPU", "GPU"}
             THEN [outcome |-> "NotImplementedError:storage",
                   downsampler |-> Some(ds)]
             ELSE [outcome |-> "ok", downsampler |-> Some(ds)]

\* ------------------------------------------------------------ load_data
\* the validation of lines 79-87 left out
ShapeInvalidMissing(c) == FALSE

\* lines 79-83: shape (N, 28, 28) and dtype uint8
ShapeInvalid(c) == ~c.shape_ok

\* np.where(labels_array == class_label)[0]: matching indices, ascending
where(labels, class_label) ==
    SelectSeq([i \in 1..Len(labels) |-> i - 1],
              LAMBDA i : labels[i + 1] = class_label)

\* classes visited as 1..10 instead of 0..9
partition_from_one(labels) ==
    [c \in 1..num_classes |-> where(labels, c)]

\* lines 91-94: one index array per class, classes in order 0..9
partition(labels) ==
    [c \in 1..num_classes |-> where(labels, c - 1)]

\* the 1 written one column to the right of labels[i]
convert_to_one_shifted(labels, ncls) ==
    [i \in 1..Len(labels) |->
        [j \in 1..ncls |-> IF j - 2 = labels[i] THEN 1 ELSE 0]]

\* _convert_to_one: zeros, then a 1 at column labels[i] of row i
convert_to_one(labels, ncls) ==
    [i \in 1..Len(labels) |->
        [j \in 1..ncls |-> IF j - 1 = labels[i] THEN 1 ELSE 0]]

\* ----------------------------------------------------------- downsample
\* the guard of line 102 left out
NotLoadedMissing(dc) == FALSE

\* line 102: the "Data not loaded" guard
NotLoaded(dc) == dc = None

\* line 107 left out: the downsampler's result is dropped
downsample_cpu_dropped(sd, dc, dg) ==
    LET raw_data == Quantize(dc[1])
    IN  IF sd = "GPU"
        THEN [data_cpu |-> None, data_gpu |-> GPUTensor(to_device(dc[1])),
              calls |-> 1, transfers |-> 1]
        ELSE [data_cpu |-> dc, data_gpu |-> dg, calls |-> 1, transfers |-> 0]

\* lines 105-111: processing on the host.  Result: the two slots, the
\* number of downsampler calls and of device transfers.
downsample_cpu(sd, dc, dg) ==
    LET raw_data == Quantize(dc[1])
        t == CPUTensor(raw_data)
    IN  IF sd = "GPU"
        THEN [data_cpu |-> None, data_gpu |-> GPUTensor(to_device(t[1])),
              calls |-> 1, transfers |-> 1]
        ELSE [data_cpu |-> t, data_gpu |-> dg, calls |-> 1, transfers |-> 0]

\* line 122 left out: the host copy is kept next to the accelerator copy
downsample_gpu_keeps_host(sd, dc, dg) ==
    LET d_array == Quantize(to_device(dc[1]))
    IN  IF sd = "CPU"
        THEN [data_cpu |-> CPUTensor(copy_to_host(d_array)),
              data_gpu |-> None, calls |-> 1, transfers |-> 2]
        ELSE [data_cpu |-> dc, data_gpu |-> GPUTensor(d_array),
              calls |-> 1, transfers |-> 1]

\* lines 118-119 clearing both slots instead of filling the host slot
downsample_gpu_clears_host(sd, dc, dg) ==
    LET d_array == Quantize(to_device(dc[1]))
    IN  IF sd = "CPU"
        THEN [data_cpu |-> None, data_gpu |-> None,
              calls |-> 1, transfers |-> 2]
        ELSE [data_cpu |-> None, data_gpu |-> GPUTensor(d_array),
              calls |-> 1, transfers |-> 1]

\* lines 121-122 filling the host slot instead of the accelerator slot
downsample_gpu_wrong_slot(sd, dc, dg) ==
    LET d_array == Quantize(to_device(dc[1]))
    IN  IF sd = "CPU"
        THEN [data_cpu |-> CPUTensor(copy_to_host(d_array)),
              data_gpu |-> None, calls |-> 1, transfers |-> 2]
        ELSE [data_cpu |-> GPUTensor(d_array), data_gpu |-> None,
              calls |-> 1, transfers |-> 1]

\* lines 113-122: processing on the accelerator; the downsampler works in
\* place on the device array d_array.
downsample_gpu(sd, dc, dg) ==
    LET d_array == Quantize(to_device(dc[1]))
    IN  IF sd = "CPU"
        THEN [data_cpu |-> CPUTensor(copy_to_host(d_array)),
              data_gpu |-> None, calls |-> 1, transfers |-> 2]
        ELSE [data_cpu |-> None, data_gpu |-> GPUTensor(d_array),
              calls |-> 1, transfers |-> 1]

\* the accelerator-storage branches also dropping the host-side labels
kept_by_downsample_drops(sd, lab, all) ==
    IF sd = "GPU" THEN [labels_cpu |-> None, all_indices |-> all]
    ELSE [labels_cpu |-> lab, all_indices |-> all]

\* downsample assigns only self.data_cpu and self.data_gpu: the labels
\* and the index partition after the call
kept_by_downsample(sd, lab, all) == [labels_cpu |-> lab, all_indices |-> all]

\* lines 100-122
downsample(pd, sd, dc, dg) ==
    IF NotLoaded(dc)
    THEN [outcome |-> "RuntimeError:not_loaded", data_cpu |-> dc,
          data_gpu |-> dg, calls |-> 0, transfers |-> 0]
    ELSE IF dc = None
    THEN \* self.data_cpu.array on None
         [outcome |-> "AttributeError", data_cpu |-> dc, data_gpu |-> dg,
          calls |-> 0, transfers |-> 0]
    ELSE LET r == IF pd = "CPU" THEN downsample_cpu(sd, dc, dg)
                  ELSE IF pd = "GPU" THEN downsample_gpu(sd, dc, dg)
                  ELSE [data_cpu |-> dc, data_gpu |-> dg,
                        calls |-> 0, transfers |-> 0]
         IN  [outcome |-> "ok", data_cpu |-> r.data_cpu,
              data_gpu |-> r.data_gpu, calls |-> r.calls,
              transfers |-> r.transfers]

\* ---------------------------------------------------------- get_samples
\* replace=False left out: draws may repeat an element
choice_with_replacement(a, size) == [1..size -> Range(a)]

\* np.random.choice(a, size, replace=False): every ordered draw of size
\* distinct elements of a
choice(a, size) ==
    {s \in [1..size -> Range(a)] :
        \A i, j \in 1..size : s[i] = s[j] => i = j}

\* each class's draw written in front of the earlier ones
RECURSIVE draws_prepend(_, _, _, _)
draws_prepend(all, c, samples_per_class, remaining) ==
    IF c > Len(all) THEN {<<>>}
    ELSE LET count == IF remaining > 0 THEN samples_per_class + 1
                                       ELSE samples_per_class
             rem2 == IF remaining > 0 THEN remaining - 1 ELSE remaining
         IN  {t \o s :
                s \in choice(all[c], Min(count, Len(all[c]))),
                t \in draws_prepend(all, c + 1, samples_per_class, rem2)}

\* lines 138-148: the loop over self.all_indices from class position c on,
\* with the running value of remaining; the set of possible contents
\* of selected_indices[0:offset], per-class draws in visiting order.
RECURSIVE draws(_, _, _, _)
draws(all, c, samples_per_class, remaining) ==
    IF c > Len(all) THEN {<<>>}
    ELSE LET count == IF remaining > 0 THEN samples_per_class + 1
                                       ELSE samples_per_class
             rem2 == IF remaining > 0 THEN remaining - 1 ELSE remaining
         IN  {s \o t :
                s \in choice(all[c], Min(count, Len(all[c]))),
                t \in draws(all, c + 1, samples_per_class, rem2)}

\* lines 132-148: every value the random draws can give selected_indices;
\* iterating over None raises before anything is drawn
selections(all, bs) ==
    IF all = None THEN {<<>>}
    ELSE draws(all[1], 1, bs \div num_classes, bs % num_classes)

\* the check of line 150 left out
CountOkMissing(offset, bs) == TRUE
\* the check of line 150 only catching an over-full batch
CountOkAtMost(offset, bs) == offset <= bs

\* line 150: the total-count check passes
CountOk(offset, bs) == offset = bs

\* array[selected_indices] on the stored array: the gathered elements
gather(arr, sel) == [p \in 1..Len(sel) |-> Elem(arr, sel[p])]
\* fancy indexing raises IndexError on an index past the end
InBounds(n, sel) == \A p \in 1..Len(sel) : sel[p] < n

\* line 153: self.labels_cpu.array[selected_indices]
gather_labels(lab, sel) == [p \in 1..Len(sel) |-> lab[sel[p] + 1]]

\* line 167 assigning self.data_cpu instead of a local
slots_after_sample_assigns(sd, dc, dg) ==
    IF sd = "GPU" /\ dg # None
    THEN [data_cpu |-> CPUTensor(copy_to_host(dg[1])), data_gpu |-> dg]
    ELSE [data_cpu |-> dc, data_gpu |-> dg]

\* cuda.to_device left out of line 169: the batch stays on the host
gpu_batch_on_host(batch_cpu) == [dev |-> "CPU", items |-> batch_cpu]

\* line 169: GPUTensor(cuda.to_device(batch_cpu))
gpu_batch(batch_cpu) == [dev |-> "GPU", items |-> batch_cpu]

\* get_samples assigns no attribute of self: the two slots after the call
slots_after_sample(sd, dc, dg) == [data_cpu |-> dc, data_gpu |-> dg]

NoBatch == [outcome |-> "", images |-> None, labels |-> None,
            selected |-> None, transfers |-> 0]

\* lines 124-169, for one outcome sel of the random draws
get_samples(sd, bs, dc, dg, lab, all, sel) ==
    IF all = None
    THEN [NoBatch EXCEPT !.outcome = "TypeError"]
    ELSE IF ~CountOk(Len(sel), bs)
    THEN [NoBatch EXCEPT !.outcome = "RuntimeError:count"]
    ELSE IF ~InBounds(Len(lab[1]), sel)
    THEN [NoBatch EXCEPT !.outcome = "IndexError"]
    ELSE LET batch_labels ==
                [dev |-> "CPU", items |-> gather_labels(lab[1], sel)]
         IN  IF sd = "CPU"
             THEN IF dc = None
                  THEN [NoBatch EXCEPT
                          !.outcome = "RuntimeError:cpu_not_available"]
                  ELSE IF ~InBounds(dc[1].corpus.n, sel)
                  THEN [NoBatch EXCEPT !.outcome = "IndexError"]
                  ELSE [outcome |-> "ok",
                        images |-> Some([dev |-> "CPU",
                                         items |-> gather(dc[1], sel)]),
                        labels |-> Some(batch_labels),
                        selected |-> Some(sel), transfers |-> 0]
             ELSE IF dg = None
                  THEN [NoBatch EXCEPT
                          !.outcome = "RuntimeError:gpu_not_available"]
                  ELSE LET data_cpu_local == copy_to_host(dg[1])
                       IN  IF ~InBounds(data_cpu_local.corpus.n, sel)
                           THEN [NoBatch EXCEPT !.outcome = "IndexError",
                                                !.transfers = 1]
                           ELSE [outcome |-> "ok",
                                 images |-> Some(gpu_batch(
                                    gather(data_cpu_local, sel))),
                                 labels |-> Some(batch_labels),
                                 selected |-> Some(sel), transfers |-> 2]

\* ================================================================ state
VARIABLES
    phase,            \* "new": not constructed; "live"; "failed": __init__ raised
    gpu_available,    \* GPUTensor is not None (import guard, lines 7-11)
    process_device, storage_device, batch_size,
    downsampler,      \* self.downsampler
    data_cpu, data_gpu, labels_cpu, all_indices,
    quantize_done,    \* a downsample() call has completed since construction
    pending,          \* where a caller stands in retrying a call that
                      \* raised a sequencing error (see after_call)
    last              \* the last call: operation, outcome, returned batch

vars == <<phase, gpu_available, process_device, storage_device, batch_size,
          downsampler, data_cpu, data_gpu, labels_cpu, all_indices,
          quantize_done, pending, last>>

config == <<gpu_available, process_device, storage_device, batch_size,
            downsampler>>

NoCall == [op |-> "", outcome |-> "", images |-> None, labels |-> None,
           selected |-> None, calls |-> 0, transfers |-> 0]

\* the sequencing errors: lines 103, 158-160 and 164-166
SequencingErrors == {"RuntimeError:not_loaded",
                     "RuntimeError:cpu_not_available",
                     "RuntimeError:gpu_not_available"}

\* The caller's retry protocol after a sequencing error: downsample()
\* raised "not loaded" -> a successful load_data() -> downsample() again;
\* get_samples() raised "not available" -> a successful downsample() ->
\* get_samples() again.  Any other call abandons the retry.
after_call(p, call) ==
    IF p = "retry_downsample" /\ call.op = "downsample"
    THEN IF call.outcome = "ok" THEN "retried_ok" ELSE "retried_failed"
    ELSE IF p = "retry_get_samples" /\ call.op = "get_samples"
    THEN IF call.outcome = "ok" THEN "retried_ok" ELSE "retried_failed"
    ELSE IF call.op = "downsample" /\ call.outcome = "RuntimeError:not_loaded"
    THEN "need_load_data"
    ELSE IF call.op = "get_samples" /\ call.outcome \in SequencingErrors
    THEN "need_downsample"
    ELSE IF p = "need_load_data" /\ call.op = "load_data"
    THEN IF call.outcome = "ok" THEN "retry_downsample" ELSE p
    ELSE IF p = "need_downsample" /\ call.op = "downsample"
            /\ call.outcome = "ok"
    THEN "retry_get_samples"
    ELSE "none"

Init ==
    /\ phase = "new"
    /\ gpu_available \in BOOLEAN
    /\ process_device = None
    /\ storage_device = None
    /\ batch_size = None
    /\ downsampler = None
    /\ data_cpu = None
    /\ data_gpu = None
    /\ labels_cpu = None
    /\ all_indices = None
    /\ quantize_done = FALSE
    /\ pending = "none"
    /\ last = NoCall

\* DataManager(data_path, labels_path, bit_width, batch_size, pd, sd)
Construct ==
    /\ phase = "new"
    /\ \E pd \in Device, sd \in Device, bs \in 0..MaxBatch :
         LET r == construct(pd, sd, gpu_available)
         IN  /\ process_device' = Some(pd)
             /\ storage_device' = Some(sd)
             /\ batch_size' = Some(bs)
             /\ downsampler' = r.downsampler
             /\ phase' = IF r.outcome = "ok" THEN "live" ELSE "failed"
             /\ last' = [NoCall EXCEPT !.op = "construct",
                                       !.outcome = r.outcome]
    /\ pending' = after_call(pending, last')
    /\ UNCHANGED <<gpu_available, data_cpu, data_gpu, labels_cpu,
                   all_indices, quantize_done>>

\* load_data(), the files holding corpus c
Load ==
    /\ phase = "live"
    /\ \E c \in Corpora :
         IF ShapeInvalid(c)
         THEN /\ last' = [NoCall EXCEPT !.op = "load_data",
                                        !.outcome = "ValueError"]
              /\ UNCHANGED <<data_cpu, labels_cpu, all_indices>>
         ELSE /\ all_indices' = Some(partition(LabelsOf(c)))
              /\ labels_cpu' =
                    CPUTensor(convert_to_one(LabelsOf(c), num_classes))
              /\ data_cpu' = CPUTensor(RawArray(c))
              /\ last' = [NoCall EXCEPT !.op = "load_data", !.outcome = "ok"]
    /\ pending' = after_call(pending, last')
    /\ UNCHANGED <<phase, config, data_gpu, quantize_done>>

\* downsample()
Downsample ==
    /\ phase = "live"
    /\ data_cpu # None => data_cpu[1].q < MaxPasses
    /\ LET r == downsample(process_device[1], storage_device[1],
                           data_cpu, data_gpu)
       IN  /\ data_cpu' = r.data_cpu
           /\ data_gpu' = r.data_gpu
           /\ quantize_done' = (quantize_done \/ r.outcome = "ok")
           /\ last' = [NoCall EXCEPT !.op = "downsample",
                                     !.outcome = r.outcome,
                                     !.calls = r.calls,
                                     !.transfers = r.transfers]
    /\ LET k == kept_by_downsample(storage_device[1], labels_cpu, all_indices)
       IN  /\ labels_cpu' = k.labels_cpu
           /\ all_indices' = k.all_indices
    /\ pending' = after_call(pending, last')
    /\ UNCHANGED <<phase, config>>

\* get_samples() / __call__()
Sample ==
    /\ phase = "live"
    /\ \E sel \in selections(all_indices, batch_size[1]) :
         LET r == get_samples(storage_device[1], batch_size[1], data_cpu,
                              data_gpu, labels_cpu, all_indices, sel)
             s == slots_after_sample(storage_device[1], data_cpu, data_gpu)
         IN  /\ data_cpu' = s.data_cpu
             /\ data_gpu' = s.data_gpu
             /\ last' = [NoCall EXCEPT !.op = "get_samples",
                                       !.outcome = r.outcome,
                                       !.images = r.images,
                                       !.labels = r.labels,
                                       !.selected = r.selected,
                                       !.transfers = r.transfers]
    /\ pending' = after_call(pending, last')
    /\ UNCHANGED <<phase, config, labels_cpu, all_indices, quantize_done>>

Next == Construct \/ Load \/ Downsample \/ Sample

Spec == Init /\ [][Next]_vars

TypeOK ==
    /\ phase \in {"new", "live", "failed"}
    /\ gpu_available \in BOOLEAN
    /\ quantize_done \in BOOLEAN
    /\ Len(data_cpu) <= 1 /\ Len(data_gpu) <= 1

\* ============================================================ properties
PD == process_device[1]
SD == storage_device[1]
BS == batch_size[1]

\* nothing has been loaded or produced: every slot is empty
Unloaded == data_cpu = None /\ data_gpu = None
\* the host slot holds a corpus no downsampler pass has touched
HoldsRaw == data_cpu # None /\ data_cpu[1].q = 0
\* the Loaded state: a raw corpus on the host and nothing else
LoadedRaw == HoldsRaw /\ data_gpu = None

DownsampleOk == last.op = "downsample" /\ last.outcome = "ok"
SampleOk == last.op = "get_samples" /\ last.outcome = "ok"

\* the target count of the class at position c (1..10) of the partition
Target(c) ==
    (BS \div num_classes) + (IF c - 1 < BS % num_classes THEN 1 ELSE 0)
\* the class position whose draw fills position p of the batch
ClassAt(p) ==
    LET base == BS \div num_classes
        extra == BS % num_classes
    IN  IF p <= extra * (base + 1)
        THEN ((p - 1) \div (base + 1)) + 1
        ELSE extra + ((p - 1 - extra * (base + 1)) \div base) + 1

\* C1: after a successful downsample() exactly one data slot is populated:
\* the slot of the configured storage device; the other one is empty.
C1_OneSlotOnStorageDevice ==
    DownsampleOk =>
        /\ SD = "CPU" => (data_cpu # None /\ data_gpu = None)
        /\ SD = "GPU" => (data_gpu # None /\ data_cpu = None)

C1_Witness ==
    DownsampleOk /\ PD = "GPU" /\ SD = "GPU" /\ data_gpu # None

\* C2: get_samples() called while no downsample() has completed since
\* construction raises and returns no batch (stated for batch_size >= 1,
\* where a returned batch holds at least one image).
C2_SampleBeforeQuantizeRaises ==
    (last.op = "get_samples" /\ ~quantize_done /\ BS >= 1) =>
        (last.outcome # "ok" /\ last.images = None /\ last.labels = None)

\* C3: downsample() on an unloaded manager raises the "not loaded" error
\* without calling the downsampler or moving data between devices, and
\* leaves both slots empty.
C3_QuantizeUnloadedRaises ==
    [][(Unloaded /\ all_indices = None /\ last'.op = "downsample") =>
          /\ last'.outcome = "RuntimeError:not_loaded"
          /\ last'.calls = 0
          /\ last'.transfers = 0
          /\ data_cpu' = None /\ data_gpu' = None]_vars

C3_Witness ==
    /\ Unloaded /\ all_indices = None
    /\ last.op = "downsample" /\ last.outcome = "RuntimeError:not_loaded"

\* C4: with accelerator support the pairs (CPU, CPU), (GPU, CPU) and
\* (GPU, GPU) construct and bind the downsampler of the processing device;
\* the pair (CPU, GPU) fails with NotImplementedError, with or without
\* accelerator support.
C4_Construction ==
    phase # "new" =>
        /\ (PD = "CPU" /\ SD = "GPU") =>
              /\ phase = "failed"
              /\ last.outcome = "NotImplementedError:modes"
        /\ (gpu_available /\ ~(PD = "CPU" /\ SD = "GPU")) =>
              /\ phase = "live"
              /\ downsampler = Some(IF PD = "CPU" THEN "CPUStateDownSampler"
                                    ELSE "CUDAStateDownSampler")

C4_Witness ==
    phase = "failed" /\ PD = "CPU" /\ SD = "GPU" /\ gpu_available

\* C5: a get_samples() call that returns gives exactly batch_size images
\* and batch_size label rows, image p being the element of the storage
\* slot at some index and label p the one-hot row of that same index.
C5_FullAlignedBatch ==
    SampleOk =>
        LET imgs == last.images[1].items
            labs == last.labels[1].items
            slot == IF SD = "CPU" THEN data_cpu[1] ELSE data_gpu[1]
        IN  /\ Len(imgs) = BS
            /\ Len(labs) = BS
            /\ \A p \in 1..BS :
                  /\ imgs[p] = Elem(slot, imgs[p].idx)
                  /\ imgs[p].idx \in 0..(Len(labels_cpu[1]) - 1)
                  /\ labs[p] = labels_cpu[1][imgs[p].idx + 1]

C5_Witness ==
    SampleOk /\ BS >= 2 /\ Len(last.images[1].items) = BS

\* C6: when every class has at least its target count, a successful
\* get_samples() lays the batch out class by class in the order 0..9,
\* class c filling base + 1 positions if c < extra and base otherwise.
C6_PerClassLayout ==
    (SampleOk /\ \A c \in 1..num_classes :
                    Len(all_indices[1][c]) >= Target(c)) =>
        LET sel == last.selected[1]
        IN  /\ Len(sel) = BS
            /\ \A p \in 1..BS : sel[p] \in Range(all_indices[1][ClassAt(p)])
            /\ \A c \in 1..num_classes :
                  Cardinality({p \in 1..BS :
                      sel[p] \in Range(all_indices[1][c])}) = Target(c)

C6_Witness ==
    /\ SampleOk
    /\ BS > num_classes /\ BS % num_classes # 0
    /\ \A c \in 1..num_classes : Len(all_indices[1][c]) >= Target(c)

\* C7: when some class has fewer indices than its target count,
\* get_samples() fails on the total-count check and returns no batch.
C7_StarvationFails ==
    (/\ last.op = "get_samples"
     /\ all_indices # None
     /\ \E c \in 1..num_classes : Len(all_indices[1][c]) < Target(c)) =>
        /\ last.outcome = "RuntimeError:count"
        /\ last.images = None /\ last.labels = None

C7_Witness ==
    /\ last.op = "get_samples" /\ last.outcome = "RuntimeError:count"
    /\ \E c \in 1..num_classes :
          /\ Len(all_indices[1][c]) < Target(c)
          /\ \E d \in 1..num_classes : Len(all_indices[1][d]) > Target(d)

C9_RawNotRetained ==
    DownsampleOk =>
        /\ data_cpu # None => data_cpu[1].q >= 1
        /\ data_gpu # None => data_gpu[1].q >= 1

C9_Witness ==
    DownsampleOk /\ PD = "CPU" /\ data_cpu # None /\ data_cpu[1].q = 1

\* C10: a get_samples() call, returning or raising, leaves both data
\* slots, the labels, the index partition and the configuration as they
\* were.
C10_SampleChangesNothing ==
    [][last'.op = "get_samples" =>
          UNCHANGED <<data_cpu, data_gpu, labels_cpu, all_indices,
                      config, phase>>]_vars

C10_Witness ==
    SampleOk /\ SD = "GPU" /\ data_gpu # None /\ data_cpu = None

LoadOk == last.op = "load_data" /\ last.outcome = "ok"
\* the corpus the last successful load_data() read
Loaded == data_cpu[1].corpus

\* C11: after a successful load_data() of N images the index partition has
\* 10 class sets, pairwise disjoint, whose union is 0..N-1, and index i is
\* in the set of class label[i].
C11_PartitionByLabel ==
    LoadOk =>
        LET part == all_indices[1]
            labels == LabelsOf(Loaded)
        IN  /\ Len(part) = 10
            /\ \A c, d \in 1..10 :
                  c # d => Range(part[c]) \cap Range(part[d]) = {}
            /\ UNION {Range(part[c]) : c \in 1..10} = 0..(Loaded.n - 1)
            /\ \A i \in 0..(Loaded.n - 1) :
                  i \in Range(part[labels[i + 1] + 1])

C11_Witness ==
    LoadOk /\ Loaded.n > 10 /\ \A c \in 1..10 : all_indices[1][c] # <<>>

\* C12: load_data() of a corpus that is not (N, 28, 28) uint8 raises
\* ValueError and changes neither slot, nor the labels, nor the partition:
\* a load that does not raise ValueError holds a well-shaped corpus.
C12_BadShapeChangesNothing ==
    [][last'.op = "load_data" =>
          /\ last'.outcome \in {"ok", "ValueError"}
          /\ last'.outcome = "ok" => data_cpu'[1].corpus.shape_ok
          /\ last'.outcome = "ValueError" =>
                UNCHANGED <<data_cpu, data_gpu, labels_cpu, all_indices>>]_vars

C12_Witness ==
    /\ last.op = "load_data" /\ last.outcome = "ValueError"
    /\ all_indices = None /\ data_cpu = None

C14_NoAcceleratorSupport ==
    (phase # "new" /\ ~gpu_available) =>
        /\ (PD = "GPU" \/ SD = "GPU") => phase = "failed"
        /\ (PD = "CPU" /\ SD = "CPU") =>
              (phase = "live" /\ downsampler = Some("CPUStateDownSampler"))

C14_Witness ==
    phase = "failed" /\ ~gpu_available /\ PD = "GPU" /\ SD = "CPU"

\* a slot holding at least one image
Holds(slot) == slot # None /\ slot[1].corpus.n >= 1

\* C15: between one successful load_data() and the next the downsampler
\* passes over the held corpus at most once (stated for a corpus of at
\* least one image).
C15_QuantizedOncePerLoad ==
    /\ Holds(data_cpu) => data_cpu[1].q <= 1
    /\ Holds(data_gpu) => data_gpu[1].q <= 1

\* C16: the host slot and the accelerator slot are never both populated
\* (stated for tensors of at least one image).
C16_NeverBothSlots ==
    ~(Holds(data_cpu) /\ Holds(data_gpu))

C18_OneHotRows ==
    LoadOk =>
        LET rows == labels_cpu[1]
            labels == LabelsOf(Loaded)
        IN  /\ Len(rows) = Loaded.n
            /\ \A i \in 1..Len(rows) :
                  /\ Len(rows[i]) = 10
                  /\ \A j \in 1..10 : rows[i][j] \in {0, 1}
                  /\ {j \in 1..10 : rows[i][j] = 1} = {labels[i] + 1}

C18_Witness ==
    /\ LoadOk
    /\ \A k \in 0..9 : \E i \in 1..Len(labels_cpu[1]) :
          labels_cpu[1][i][k + 1] = 1

\* C19: the indices selected by one get_samples() call are pairwise
\* distinct.
C19_NoIndexTwice ==
    SampleOk =>
        LET sel == last.selected[1]
        IN  \A p, r \in 1..Len(sel) : sel[p] = sel[r] => p = r

C19_Witness ==
    /\ SampleOk /\ BS >= 2
    /\ \E c \in 1..10 :
          Cardinality({p \in 1..BS :
              last.selected[1][p] \in Range(all_indices[1][c])}) >= 2

\* C20: downsample(), succeeding or raising, leaves the labels and the
\* index partition as load_data() built them: nothing but load_data()
\* changes them, and downsample() changes at most the two data slots.
C20_QuantizeKeepsLabelsAndPartition ==
    [][/\ last'.op = "downsample" =>
             UNCHANGED <<labels_cpu, all_indices, config, phase>>
       /\ (labels_cpu' # labels_cpu \/ all_indices' # all_indices) =>
             last'.op = "load_data"]_vars

C20_Witness ==
    /\ DownsampleOk /\ SD = "GPU"
    /\ all_indices # None /\ Len(labels_cpu[1]) > 0
====
